---- MODULE Spec2Model ----
(***************************************************************************)
(* The WAVE (RIFF/WAVE) codec of crates/blerp/src/wavefile.rs:             *)
(* WaveFile::from_samples, WaveFile::from_raw_data, WaveFile::write and   *)
(* WaveFile::read, the last with the nom 7 combinators it is built from.   *)
(*                                                                         *)
(* Representation.  A byte is a number in 0..255 and a buffer is a         *)
(* sequence of bytes.  TLC's integers are 32-bit signed, so a u32 of the   *)
(* program is carried as its four little-endian bytes (exactly what the    *)
(* file holds) and u32 arithmetic is done on the bytes at full width; u16  *)
(* and buffer lengths are plain integers.                                  *)
(***************************************************************************)
EXTENDS Integers, Sequences, FiniteSets, TLC

VARIABLES
    pc,               \* "start", "encoded", "written", "crafted", "read"
    overflow_checks,  \* the build: TRUE = arithmetic overflow panics (debug),
                      \* FALSE = it wraps (release)
    args,             \* Some(the arguments of from_samples), or NoValue
    encoded,          \* the Result of from_samples, or NoValue
    written,          \* the outcome of write and what the sink holds, or NoValue
    raw,              \* Some(the WaveFile from_raw_data made and its data length), or NoValue
    chunks,           \* Some(the description of a hand-built file), or NoValue
    tampered,         \* Some(a hand-built file and how it was damaged), or NoValue
    bytes,            \* the buffer handed to read
    result,           \* the Result of read, or NoValue
    reread            \* the Result of read on the file written from `result`, or NoValue

vars == <<pc, overflow_checks, args, encoded, written, raw, chunks, tampered, bytes, result,
          reread>>

NoValue == [t |-> "None"]

(***************************************************************************)
(* Bounds of the model.                                                    *)
(***************************************************************************)
MaxChannels == 2      \* channels handed to from_samples: 0..MaxChannels
MaxFrames == 2        \* samples per channel handed to from_samples
MaxData == 3          \* declared length of a hand-built data chunk
MaxDamagedData == 1   \* the same, of a file that arrives damaged
MaxBlockAlign == 4    \* block align of a file whose fmt fields range freely
U16_MAX == 65535

(***************************************************************************)
(* Integers of fixed width.                                                *)
(***************************************************************************)
RECURSIVE to_le_bytes(_, _)
\* v.to_le_bytes() for a v below 2^31: the n low bytes, least significant first.
to_le_bytes(v, n) ==
    IF n = 0 THEN <<>> ELSE <<v % 256>> \o to_le_bytes(v \div 256, n - 1)

u32(v) == to_le_bytes(v, 4)

\* `x as usize` of a u32 whose value is below 2^31.
as_usize(b) == b[1] + 256 * b[2] + 65536 * b[3] + 16777216 * b[4]

\* length > n, for a u32 length and a buffer length n (below 2^31).
exceeds(length, n) == length[4] >= 128 \/ as_usize(length) > n

u16_from_le(b) == b[1] + 256 * b[2]

RECURSIVE mul_digits(_, _, _)
\* The digits of a * m (a in little-endian bytes, m below 2^16), followed by
\* the carry out of the last digit.
mul_digits(a, m, carry) ==
    IF a = <<>> THEN <<carry>>
    ELSE LET t == Head(a) * m + carry
         IN <<t % 256>> \o mul_digits(Tail(a), m, t \div 256)

\* a * m in u32: the wrapped product and whether it left the 32-bit range.
mul_u32(a, m) ==
    LET d == mul_digits(a, m, 0)
    IN [value |-> SubSeq(d, 1, 4), overflow |-> d[5] # 0]

(***************************************************************************)
(* WaveFile, Format and the error kinds.                                   *)
(***************************************************************************)
PulseCodeModulation == "PulseCodeModulation"
FloatingPoint == "FloatingPoint"

\* `format as u16`
format_as_u16(format) == IF format = FloatingPoint THEN 3 ELSE 1

WaveFile(format, channels, sample_rate, bytes_per_sample, data) ==
    [format |-> format, channels |-> channels, sample_rate |-> sample_rate,
     bytes_per_sample |-> bytes_per_sample, data |-> data]

DomainKinds ==
    {"DataRateMismatch", "ChannelCountMismatch", "NoChannels",
     "MissingFormatChunkExtensionSize", "FormatNotSupported", "MissingFactChunk",
     "FactChunkLengthMismatch", "DataSizeNotMultipleOfBlockSize", "InvalidDataSize"}

NomKinds == {"Nom(Tag)", "Nom(Eof)", "Nom(Verify)", "Nom(Complete)"}

(***************************************************************************)
(* Parser inputs and results.  An Input is a LocatedSpan: the bytes still  *)
(* to read and their offset in the whole buffer.  A parser returns         *)
(* Ok(rest, out), Err::Error(ReadError) (recoverable), Err::Incomplete, or *)
(* it panics (an arithmetic fault inside a closure).                       *)
(***************************************************************************)
Input(off, frag) == [off |-> off, frag |-> frag]

Ok(rest, out) == [t |-> "Ok", rest |-> rest, out |-> out]
ReadError(kind, position) == [t |-> "Error", kind |-> kind, position |-> position]
Incomplete == [t |-> "Incomplete"]
Panic == [t |-> "Panic"]

\* A variant that reports every failure of a combinator as an unsupported format.
from_error_kind_unsupported(input, kind) == ReadError("FormatNotSupported", input.off)

\* ParseError::from_error_kind: the kind Nom(kind) at the input's offset.
from_error_kind(input, kind) == ReadError(kind, input.off)

take_split(input, n) ==
    [taken |-> Input(input.off, SubSeq(input.frag, 1, n)),
     rest |-> Input(input.off + n, SubSeq(input.frag, n + 1, Len(input.frag)))]

\* bytes::complete::tag
tag(t, input) ==
    IF Len(input.frag) >= Len(t) /\ SubSeq(input.frag, 1, Len(t)) = t
    THEN Ok(take_split(input, Len(t)).rest, take_split(input, Len(t)).taken)
    ELSE from_error_kind(input, "Nom(Tag)")

\* bytes::complete::take
take(n, input) ==
    IF Len(input.frag) < n THEN from_error_kind(input, "Nom(Eof)")
    ELSE Ok(take_split(input, n).rest, take_split(input, n).taken)

\* number::complete::le_u16
le_u16(input) ==
    IF Len(input.frag) < 2 THEN from_error_kind(input, "Nom(Eof)")
    ELSE Ok(take_split(input, 2).rest, u16_from_le(input.frag))

\* number::complete::le_u32 (the value is kept as its four bytes)
le_u32(input) ==
    IF Len(input.frag) < 4 THEN from_error_kind(input, "Nom(Eof)")
    ELSE Ok(take_split(input, 4).rest, SubSeq(input.frag, 1, 4))

\* A variant whose output begins at the length field, as consumed(length_data(..))
\* gives.
length_data_consumed(input) ==
    IF Len(input.frag) < 4 THEN from_error_kind(input, "Nom(Eof)")
    ELSE IF exceeds(SubSeq(input.frag, 1, 4), Len(input.frag) - 4) THEN Incomplete
    ELSE Ok(take_split(input, 4 + as_usize(SubSeq(input.frag, 1, 4))).rest,
            take_split(input, 4 + as_usize(SubSeq(input.frag, 1, 4))).taken)

\* multi::length_data(le_u32): Incomplete when the length exceeds what is left.
length_data(input) ==
    LET l == le_u32(input)
    IN IF l.t # "Ok" THEN l
       ELSE IF exceeds(l.out, Len(l.rest.frag)) THEN Incomplete
       ELSE Ok(take_split(l.rest, as_usize(l.out)).rest,
               take_split(l.rest, as_usize(l.out)).taken)

TAG_RIFF == <<82, 73, 70, 70>>
TAG_WAVE == <<87, 65, 86, 69>>
TAG_FMT == <<102, 109, 116, 32>>
TAG_DATA == <<100, 97, 116, 97>>
TAG_FACT == <<102, 97, 99, 116>>

(***************************************************************************)
(* mod read: the chunk parsers.                                            *)
(***************************************************************************)

\* The closure of format_chunk's map_res: the cross-checks of the fmt fields,
\* in the order of the code.  f holds the tuple the field parsers produced.
format_checks(f) ==
    LET product == mul_u32(f.sample_rate, f.block_size)
    IN IF product.overflow /\ overflow_checks THEN Panic
       ELSE IF product.value # f.bytes_per_second
       THEN ReadError("DataRateMismatch", f.bytes_per_second_span)
       ELSE IF f.bits_per_sample \div 8 = 0 THEN Panic
       ELSE IF f.channels # f.block_size \div (f.bits_per_sample \div 8)
       THEN ReadError("ChannelCountMismatch", f.channels_span)
       ELSE IF f.channels = 0 THEN ReadError("NoChannels", f.channels_span)
       ELSE IF f.format \notin {1, 3} THEN ReadError("FormatNotSupported", f.format_span)
       ELSE IF f.format = 3 /\ ~f.has_extension
       THEN ReadError("MissingFormatChunkExtensionSize", f.format_span)
       ELSE [t |-> "Ok",
             out |-> [format |-> IF f.format = 1 THEN PulseCodeModulation ELSE FloatingPoint,
                      channels |-> f.channels,
                      sample_rate |-> f.sample_rate,
                      block_size |-> f.block_size,
                      bits_per_sample |-> f.bits_per_sample]]

\* Sequencing, as in preceded, tuple and the `?` operator: the first result is
\* returned unless it is Ok, and then the rest of the parser runs on it.
and_then(r, K(_)) == IF r.t # "Ok" THEN r ELSE K(r)

\* What length_value makes of the result g of the inner parser on the span i.
length_value_of(i, g) ==
    IF g.t = "Incomplete" THEN from_error_kind(i, "Nom(Complete)") ELSE g

\* all_consuming(tuple((consumed(le_u16), consumed(le_u16), le_u32, consumed(le_u32),
\* le_u16, le_u16, map(opt(tag(0u16)), is_some)))) on the payload i of the fmt chunk.
format_fields(i) ==
    and_then(le_u16(i), LAMBDA format :
    and_then(le_u16(format.rest), LAMBDA channels :
    and_then(le_u32(channels.rest), LAMBDA sample_rate :
    and_then(le_u32(sample_rate.rest), LAMBDA bytes_per_second :
    and_then(le_u16(bytes_per_second.rest), LAMBDA block_size :
    and_then(le_u16(block_size.rest), LAMBDA bits_per_sample :
        LET has_extension == tag(<<0, 0>>, bits_per_sample.rest).t = "Ok"
            rest == IF has_extension THEN take_split(bits_per_sample.rest, 2).rest
                    ELSE bits_per_sample.rest
        IN IF Len(rest.frag) # 0 THEN from_error_kind(rest, "Nom(Eof)")
           ELSE Ok(rest,
                   [format_span |-> i.off, format |-> format.out,
                    channels_span |-> format.rest.off, channels |-> channels.out,
                    sample_rate |-> sample_rate.out,
                    bytes_per_second_span |-> sample_rate.rest.off,
                    bytes_per_second |-> bytes_per_second.out,
                    block_size |-> block_size.out,
                    bits_per_sample |-> bits_per_sample.out,
                    has_extension |-> has_extension])))))))

\* map_res(preceded(tag("fmt "), length_value(le_u32, all_consuming(tuple(..)))), checks)
format_chunk(input) ==
    and_then(tag(TAG_FMT, input), LAMBDA t :
    and_then(le_u32(t.rest), LAMBDA length :
        IF exceeds(length.out, Len(length.rest.frag)) THEN Incomplete
        ELSE LET s == take_split(length.rest, as_usize(length.out))
             IN and_then(length_value_of(s.taken, format_fields(s.taken)), LAMBDA g :
                and_then(format_checks(g.out), LAMBDA c : Ok(s.rest, c.out)))))

\* The second alternative of data_chunk: terminated(length_data(le_u32), take(1)).
data_padded(input) ==
    and_then(length_data(input), LAMBDA d :
    and_then(take(1, d.rest), LAMBDA pad : Ok(pad.rest, d.out)))

\* The first alternative: verify(length_data(le_u32), |data| data.len() % 2 == 0).
data_even(input) ==
    and_then(length_data(input), LAMBDA d :
        IF Len(d.out.frag) % 2 = 0 THEN d ELSE from_error_kind(input, "Nom(Verify)"))

\* A variant without the second alternative.
alt_first_only(first, input) == first

\* alt((first, second)): the second is tried when the first gives Err::Error.
alt(first, input) == IF first.t = "Error" THEN data_padded(input) ELSE first

\* preceded(tag("data"), alt((verify(..), terminated(..))))
data_chunk(input) ==
    and_then(tag(TAG_DATA, input), LAMBDA t : alt(data_even(t.rest), t.rest))

\* A variant whose span is the whole chunk, as consumed(preceded(..)) would give.
fact_chunk_whole(input) ==
    and_then(tag(TAG_FACT \o <<4, 0, 0, 0>>, input), LAMBDA t :
    and_then(le_u32(t.rest), LAMBDA n :
        Ok(n.rest, [span |-> input.off, samples_length |-> n.out])))

\* preceded(tag("fact\x04\0\0\0"), consumed(le_u32))
fact_chunk(input) ==
    and_then(tag(TAG_FACT \o <<4, 0, 0, 0>>, input), LAMBDA t :
    and_then(le_u32(t.rest), LAMBDA n :
        Ok(n.rest, [span |-> t.rest.off, samples_length |-> n.out])))

Some(v) == [t |-> "Some", v |-> v]

\* A variant that lets the error of fact_chunk through.
opt_strict(f, input) == IF f.t = "Ok" THEN Ok(f.rest, Some(f.out)) ELSE f

\* opt(f) applied to the result f of fact_chunk on input
opt(f, input) ==
    IF f.t = "Ok" THEN Ok(f.rest, Some(f.out))
    ELSE IF f.t = "Error" THEN Ok(input, NoValue)
    ELSE f

Unfilled == [format |-> NoValue, data |-> NoValue, fact |-> NoValue]

\* branch::permutation((format_chunk, data_chunk, opt(fact_chunk))): each pass tries
\* the parsers not yet applied, in this order, on the current input; the first that
\* succeeds is recorded and the pass restarts; an Err::Error is kept (the later one
\* replaces the earlier, ParseError::or) and the next parser is tried; anything else
\* is returned at once.  When a pass ends with an error kept, that error is returned.
\* res holds the outputs so far, err the error kept in this pass, r the result of
\* the parser tried (None when it was applied before).
RECURSIVE permutation(_, _)

try_fact(input, res, err, r) ==
    IF r.t = "Ok" THEN permutation(r.rest, [res EXCEPT !.fact = Some(r.out)])
    ELSE IF r.t \notin {"None", "Error"} THEN r
    ELSE IF r.t = "Error" THEN r
    ELSE IF err.t = "Error" THEN err
    ELSE Ok(input, [format |-> res.format.v, data |-> res.data.v, fact |-> res.fact.v])

try_data(input, res, err, r) ==
    IF r.t = "Ok" THEN permutation(r.rest, [res EXCEPT !.data = Some(r.out)])
    ELSE IF r.t \notin {"None", "Error"} THEN r
    ELSE try_fact(input, res, IF r.t = "Error" THEN r ELSE err,
                  IF res.fact.t = "None" THEN opt(fact_chunk(input), input) ELSE NoValue)

try_format(input, res, r) ==
    IF r.t = "Ok" THEN permutation(r.rest, [res EXCEPT !.format = Some(r.out)])
    ELSE IF r.t \notin {"None", "Error"} THEN r
    ELSE try_data(input, res, r,
                  IF res.data.t = "None" THEN data_chunk(input) ELSE NoValue)

\* A variant that applies the three parsers once, in the order they are written
\* (as sequence::tuple would).
in_order(input, res) ==
    and_then(format_chunk(input), LAMBDA f :
    and_then(data_chunk(f.rest), LAMBDA d :
    and_then(opt(fact_chunk(d.rest), d.rest), LAMBDA o :
        Ok(o.rest, [format |-> f.out, data |-> d.out, fact |-> o.out]))))

permutation(input, res) ==
    try_format(input, res, IF res.format.t = "None" THEN format_chunk(input) ELSE NoValue)

\* A variant without the cross-checks between the chunks, as map (not map_res)
\* would give.
wave_unchecked(p, input) ==
    [t |-> "Ok",
     out |-> WaveFile(p.format.format, p.format.channels, p.format.sample_rate,
                      p.format.bits_per_sample \div 8, p.data.frag)]

\* The closure of wave_file's map_res: the cross-checks between the chunks.
\* p holds the permutation's output, input is the whole buffer.
wave_checks(p, input) ==
    LET data_len == Len(p.data.frag)
        bits_per_sample == p.format.bits_per_sample
        block_size == p.format.block_size
        channels == p.format.channels
        accepted == [t |-> "Ok",
                     out |-> WaveFile(p.format.format, channels, p.format.sample_rate,
                                      bits_per_sample \div 8, p.data.frag)]
    IN IF p.fact.t = "Some"
       THEN IF bits_per_sample \div 8 = 0 THEN Panic
            ELSE IF u32(data_len \div (bits_per_sample \div 8)) # p.fact.v.samples_length
            THEN ReadError("FactChunkLengthMismatch", p.fact.v.span)
            ELSE IF data_len # (block_size * as_usize(p.fact.v.samples_length)) \div channels
            THEN ReadError("InvalidDataSize", p.data.off)
            ELSE accepted
       ELSE IF p.format.format = FloatingPoint
            THEN ReadError("MissingFactChunk", Len(input.frag))
            ELSE IF block_size = 0 THEN Panic
            ELSE IF data_len % block_size # 0
            THEN ReadError("DataSizeNotMultipleOfBlockSize", p.data.off)
            ELSE accepted

\* A variant that lets a result with input left over through.
all_consuming_absent(f) == f

\* all_consuming(f) applied to the result f
all_consuming(f) ==
    IF f.t = "Ok" /\ Len(f.rest.frag) # 0 THEN from_error_kind(f.rest, "Nom(Eof)") ELSE f

\* all_consuming(map_res(preceded(tag("RIFF"), length_value(le_u32,
\*     preceded(tag("WAVE"), permutation((..))))), checks))
wave_file(input) ==
    all_consuming(
        and_then(tag(TAG_RIFF, input), LAMBDA t :
        and_then(le_u32(t.rest), LAMBDA length :
            IF exceeds(length.out, Len(length.rest.frag)) THEN Incomplete
            ELSE LET s == take_split(length.rest, as_usize(length.out))
                 IN and_then(length_value_of(s.taken,
                                 and_then(tag(TAG_WAVE, s.taken), LAMBDA w :
                                     permutation(w.rest, Unfilled))), LAMBDA g :
                    and_then(wave_checks(g.out, input), LAMBDA c : Ok(s.rest, c.out))))))

\* A variant that leaves Err::Incomplete as it is.
complete_absent(f, input) == f

\* combinator::complete applied to the result f of a parser on input
complete(f, input) ==
    IF f.t = "Incomplete" THEN from_error_kind(input, "Nom(Complete)") ELSE f

\* The map and map_err of WaveFile::read: Ok(WaveFile), Err(ReadError), a panic, or
\* "Unreachable" when the branch marked unreachable_unchecked is entered.
read_result(c) ==
    IF c.t = "Ok" THEN [t |-> "Ok", out |-> c.out]
    ELSE IF c.t = "Incomplete" THEN [t |-> "Unreachable"]
    ELSE c

\* WaveFile::read: complete(wave_file)(LocatedSpan::new(bytes))
read(buffer) == read_result(complete(wave_file(Input(0, buffer)), Input(0, buffer)))

(***************************************************************************)
(* WaveFileSample: the supported sample types.                             *)
(***************************************************************************)
SampleTypes == {"u8", "i16", "i32", "i64", "f32", "f64"}

\* T::SAMPLE_FORMAT
SAMPLE_FORMAT(T) == IF T \in {"f32", "f64"} THEN FloatingPoint ELSE PulseCodeModulation

\* size_of::<T>()
size_of(T) ==
    CASE T = "u8" -> 1 [] T = "i16" -> 2 [] T = "i32" -> 4 [] T = "f32" -> 4
      [] T = "i64" -> 8 [] T = "f64" -> 8

\* The f64 samples of the model: -1.0, 0.0 and 1.0, written -1, 0, 1.
Samples == {-1, 0, 1}

Repeat(b, n) == [i \in 1..n |-> b]

\* T::from_f64(sample).to_le_bytes().  The conversion scales the sample to the
\* type's range and saturates: -1.0 is the least value, 1.0 the greatest, 0.0 the
\* middle (128 for u8, 0 for the signed types); f32 and f64 keep the value, in
\* IEEE 754.
sample_le_bytes(T, sample) ==
    LET W == size_of(T)
    IN CASE T = "u8" -> (IF sample = -1 THEN <<0>> ELSE IF sample = 0 THEN <<128>> ELSE <<255>>)
         [] T \in {"i16", "i32", "i64"} ->
              (IF sample = -1 THEN Repeat(0, W - 1) \o <<128>>
               ELSE IF sample = 0 THEN Repeat(0, W)
               ELSE Repeat(255, W - 1) \o <<127>>)
         [] T = "f32" ->
              (IF sample = -1 THEN <<0, 0, 128, 191>>
               ELSE IF sample = 0 THEN Repeat(0, 4)
               ELSE <<0, 0, 128, 63>>)
         [] T = "f64" ->
              (IF sample = -1 THEN Repeat(0, 6) \o <<240, 191>>
               ELSE IF sample = 0 THEN Repeat(0, 8)
               ELSE Repeat(0, 6) \o <<240, 63>>)

(***************************************************************************)
(* WaveFile::from_samples                                                  *)
(***************************************************************************)
RECURSIVE flatten(_)
\* samples.into_iter().flatten(): the bytes of the samples, in order.
flatten(samples) ==
    IF samples = <<>> THEN <<>> ELSE Head(samples) \o flatten(Tail(samples))

RECURSIVE interleave_shortest(_, _, _, _)
\* A variant of the loop that stops at the first exhausted channel (as zipping the
\* channels would) instead of failing.
interleave_shortest(T, channels, frame, data) ==
    IF \E c \in 1..Len(channels) : frame > Len(channels[c])
    THEN [t |-> "Ok", out |-> data]
    ELSE interleave_shortest(T, channels, frame + 1,
             data \o flatten([c \in 1..Len(channels) |->
                                 sample_le_bytes(T, channels[c][frame])]))

\* A variant that lays the samples out channel after channel.
interleave_planar(T, channels, frame, data) ==
    IF Cardinality({Len(channels[c]) : c \in 1..Len(channels)}) > 1 THEN [t |-> "Err"]
    ELSE [t |-> "Ok",
          out |-> flatten([c \in 1..Len(channels) |->
                     flatten([f \in 1..Len(channels[c]) |->
                                 sample_le_bytes(T, channels[c][f])])])]

RECURSIVE interleave(_, _, _, _)
\* The loop of from_samples, at frame number `frame` (from 1) with `data` so far:
\* take the next sample of every channel; stop when all are exhausted, fail when
\* only some are, else append the frame.  Returns the data or "Err".
interleave(T, channels, frame, data) ==
    LET exhausted == {c \in 1..Len(channels) : frame > Len(channels[c])}
    IN IF exhausted = 1..Len(channels) THEN [t |-> "Ok", out |-> data]
       ELSE IF exhausted # {} THEN [t |-> "Err"]
       ELSE interleave(T, channels, frame + 1,
                data \o flatten([c \in 1..Len(channels) |->
                                    sample_le_bytes(T, channels[c][frame])]))

\* u16::try_from(channels.len()).ok().and_then(NonZeroU16::new)
number_of_channels(channels) ==
    IF Len(channels) > U16_MAX \/ Len(channels) = 0 THEN NoValue
    ELSE Some(Len(channels))

from_samples(T, channels, sample_rate) ==
    IF number_of_channels(channels).t = "None"
    THEN [t |-> "Err", error |-> "InequalChannelLength"]
    ELSE LET loop == interleave(T, channels, 1, <<>>)
         IN IF loop.t = "Err" THEN [t |-> "Err", error |-> "InequalChannelLength"]
            ELSE [t |-> "Ok",
                  out |-> WaveFile(SAMPLE_FORMAT(T), number_of_channels(channels).v,
                                   sample_rate, size_of(T), loop.out)]

(***************************************************************************)
(* WaveFile::write, to a sink that accepts every byte.  Returns how the    *)
(* call ended ("Ok", "DataTooLong" or "Panic") and what the sink holds.    *)
(***************************************************************************)
RIFF_DATA_LEN_PCM == 36
RIFF_DATA_LEN_FLOAT == 50

\* usize is 64 bits wide: a length is carried as its eight little-endian bytes.
usize(n) == to_le_bytes(n, 8)

RECURSIVE add_digits(_, _)
add_digits(a, carry) ==
    IF a = <<>> THEN <<>>
    ELSE <<(Head(a) + carry) % 256>> \o add_digits(Tail(a), (Head(a) + carry) \div 256)

\* a + k in usize, for a small k.  A Vec holds at most isize::MAX bytes, so the
\* sum stays in range.
add_usize(a, k) == add_digits(a, k)

div_step(head, high, m) ==
    [q |-> <<(high.r * 256 + head) \div m>> \o high.q, r |-> (high.r * 256 + head) % m]

RECURSIVE div_rem(_, _)
\* Long division of a by m (m below 2^16): the quotient's bytes and the remainder.
div_rem(a, m) ==
    IF a = <<>> THEN [q |-> <<>>, r |-> 0]
    ELSE div_step(Head(a), div_rem(Tail(a), m), m)

\* a / m in usize
div_usize(a, m) == div_rem(a, m).q

\* A variant that converts as the cast `n as u32` does, keeping the low 32 bits.
u32_wrapping(n) == Some(SubSeq(n, 1, 4))

\* u32::try_from(n) for a usize n: the value when the high 32 bits are zero.
u32_try_from(n) ==
    IF SubSeq(n, 5, 8) = <<0, 0, 0, 0>> THEN Some(SubSeq(n, 1, 4)) ELSE NoValue

\* WaveFile::from_raw_data
from_raw_data(data, format, channels, sample_rate, bytes_per_sample) ==
    WaveFile(format, channels, sample_rate, bytes_per_sample, data)

\* A variant that takes the PCM length for every format.
riff_data_len_pcm(self, len) == add_usize(len, RIFF_DATA_LEN_PCM)

\* if self.format == FloatingPoint { RIFF_DATA_LEN_FLOAT } else { RIFF_DATA_LEN_PCM }
\*     + self.data.len(), where len is self.data.len()
riff_data_len(self, len) ==
    add_usize(len, IF self.format = FloatingPoint THEN RIFF_DATA_LEN_FLOAT
                   ELSE RIFF_DATA_LEN_PCM)

\* self.data.len() / self.bytes_per_sample as usize, the count put in the fact chunk
fact_samples(self, len) == div_usize(len, self.bytes_per_sample)

\* The body of write, for a WaveFile whose data has `len` bytes.  The sink receives
\* the bytes of self.data that the model holds: all of them when write is given a
\* WaveFile with its data, none when the data is a Vec too long to spell out.
write_sized(self, len) ==
    LET float == self.format = FloatingPoint
        riff_len == u32_try_from(riff_data_len(self, len))
        head == TAG_RIFF \o riff_len.v \o TAG_WAVE \o TAG_FMT
                \o u32(IF float THEN 18 ELSE 16)
                \o to_le_bytes(format_as_u16(self.format), 2)
                \o to_le_bytes(self.channels, 2)
                \o self.sample_rate
        by_channels == mul_u32(self.sample_rate, self.channels)
        byte_rate == mul_u32(by_channels.value, self.bytes_per_sample)
        rate == head \o byte_rate.value \o to_le_bytes(self.bytes_per_sample, 2)
        bits == self.bytes_per_sample * 8
        fmt == rate \o to_le_bytes(bits % 65536, 2)
        fact_head == fmt \o <<0, 0>> \o TAG_FACT \o u32(4)
        samples == u32_try_from(fact_samples(self, len))
        before_data == IF float THEN fact_head \o samples.v ELSE fmt
        data_len == u32_try_from(len)
    IN IF riff_len.t = "None" THEN [t |-> "DataTooLong", sink |-> TAG_RIFF]
       ELSE IF overflow_checks /\ (by_channels.overflow \/ byte_rate.overflow)
       THEN [t |-> "Panic", sink |-> head]
       ELSE IF overflow_checks /\ bits > U16_MAX THEN [t |-> "Panic", sink |-> rate]
       ELSE IF float /\ self.bytes_per_sample = 0 THEN [t |-> "Panic", sink |-> fact_head]
       ELSE IF float /\ samples.t = "None" THEN [t |-> "DataTooLong", sink |-> fact_head]
       ELSE IF data_len.t = "None"
       THEN [t |-> "DataTooLong", sink |-> before_data \o TAG_DATA]
       ELSE [t |-> "Ok", sink |-> before_data \o TAG_DATA \o data_len.v \o self.data]

write(self) == write_sized(self, usize(Len(self.data)))

(***************************************************************************)
(* The inputs of the model.                                                *)
(***************************************************************************)
\* Sample rates: an everyday one and one that makes the u32 products overflow.
SampleRates == {u32(8000), <<0, 0, 0, 64>>}

\* Channels for from_samples: every tuple of at most MaxChannels channels of at
\* most MaxFrames samples each, filled from Samples in a pattern that starts at
\* `seed`, and one input of U16_MAX + 1 (empty) channels.
channels_of(lens, seed) ==
    [c \in 1..Len(lens) |-> [f \in 1..lens[c] |-> ((seed + 2 * c + f) % 3) - 1]]

ChannelInputs ==
    {channels_of(lens, seed) :
        lens \in UNION {[1..n -> 0..MaxFrames] : n \in 0..MaxChannels}, seed \in 0..2}
    \cup {[c \in 1..(U16_MAX + 1) |-> <<>>]}

RECURSIVE inc_u32(_)
\* b + 1 in u32 (wrapping).
inc_u32(b) ==
    IF b = <<>> THEN <<>>
    ELSE IF Head(b) = 255 THEN <<0>> \o inc_u32(Tail(b))
    ELSE <<Head(b) + 1>> \o Tail(b)

\* A hand-built file: the fields of its fmt chunk, its data chunk (declared length,
\* whether a pad byte follows), its fact chunk if any, and the order of the chunks.
\* The byte rate is sample_rate * block_size (in u32) plus rate_delta.
ChunkNames(fact) == IF fact.t = "None" THEN {"fmt", "data"} ELSE {"fmt", "data", "fact"}

Orders(names) ==
    {o \in [1..Cardinality(names) -> names] : \A i, j \in DOMAIN o : o[i] = o[j] => i = j}

Descriptors ==
    {[format |-> format, channels |-> ch, sample_rate |-> sr,
      block_size |-> ch * bps + extra, bits_per_sample |-> 8 * bps,
      rate_delta |-> delta, extension |-> ext,
      data_len |-> n, pad |-> pad, fact |-> fact, order |-> order] :
        format \in {1, 3}, ch \in {1, 2}, sr \in {u32(1), <<0, 0, 0, 64>>},
        bps \in {1, 2}, extra \in {0, 1}, delta \in {0, 1}, ext \in BOOLEAN,
        n \in 0..MaxData, pad \in BOOLEAN,
        fact \in {NoValue} \cup {Some(k) : k \in 0..MaxData},
        order \in Orders({"fmt", "data", "fact"}) \cup Orders({"fmt", "data"})}

\* Files whose fmt fields range freely (no channel, an unknown format tag, fewer
\* than 8 bits per sample, any block align), with an empty data chunk.
FmtDescriptors ==
    {[format |-> format, channels |-> ch, sample_rate |-> u32(1),
      block_size |-> block, bits_per_sample |-> bits,
      rate_delta |-> delta, extension |-> ext,
      data_len |-> 0, pad |-> FALSE, fact |-> NoValue, order |-> order] :
        format \in {1, 2, 3}, ch \in 0..2, block \in 0..MaxBlockAlign,
        bits \in {0, 4, 8, 16}, delta \in {0, 1}, ext \in BOOLEAN,
        order \in Orders({"fmt", "data"})}

byte_rate_of(d) ==
    IF d.rate_delta = 0 THEN mul_u32(d.sample_rate, d.block_size).value
    ELSE inc_u32(mul_u32(d.sample_rate, d.block_size).value)

data_of(d) == [i \in 1..d.data_len |-> i]

chunk_bytes(d, name) ==
    CASE name = "fmt" ->
           TAG_FMT \o u32(IF d.extension THEN 18 ELSE 16)
           \o to_le_bytes(d.format, 2) \o to_le_bytes(d.channels, 2)
           \o d.sample_rate \o byte_rate_of(d)
           \o to_le_bytes(d.block_size, 2) \o to_le_bytes(d.bits_per_sample, 2)
           \o (IF d.extension THEN <<0, 0>> ELSE <<>>)
      [] name = "data" ->
           TAG_DATA \o u32(d.data_len) \o data_of(d) \o (IF d.pad THEN <<0>> ELSE <<>>)
      [] name = "fact" -> TAG_FACT \o u32(4) \o u32(d.fact.v)

\* The file: RIFF, the length of what follows, WAVE, the chunks in their order.
assemble(d) ==
    LET payload == TAG_WAVE \o flatten([i \in DOMAIN d.order |-> chunk_bytes(d, d.order[i])])
    IN TAG_RIFF \o u32(Len(payload)) \o payload

\* The offset of a chunk's first byte in assemble(d).
RECURSIVE chunk_offset(_, _, _)
chunk_offset(d, name, i) ==
    IF d.order[i] = name THEN 12
    ELSE Len(chunk_bytes(d, d.order[i])) + chunk_offset(d, name, i + 1)

\* Lengths of a Vec around 2^32, as usize: 2^32 - k for some k, 2^32, 2^33.
below_2_32(k) == <<256 - k, 255, 255, 255, 0, 0, 0, 0>>

LongLengths ==
    {below_2_32(k) : k \in {1, 35, 36, 37, 49, 50, 51}}
    \cup {<<0, 0, 0, 0, 1, 0, 0, 0>>, <<0, 0, 0, 0, 2, 0, 0, 0>>}

\* A hand-built file whose chunks are each well formed and consistent with one
\* another by the rules of read: the byte rate is the (unwrapped) product, the
\* channel count is block_size / (bits_per_sample / 8), a float fmt chunk carries
\* the extension size, a pad byte follows exactly an odd data length, the fact
\* count matches the data, and without a fact chunk the format is PCM and the
\* data a multiple of the block size.
ValidFmt(d) ==
    /\ d.rate_delta = 0
    /\ ~mul_u32(d.sample_rate, d.block_size).overflow
    /\ d.bits_per_sample \div 8 # 0
    /\ d.channels = d.block_size \div (d.bits_per_sample \div 8)
    /\ d.channels # 0
    /\ d.format \in {1, 3}
    /\ d.format = 3 => d.extension

ValidData(d) == d.pad <=> (d.data_len % 2 = 1)

ValidFact(d) ==
    IF d.fact.t = "Some"
    THEN /\ d.fact.v = d.data_len \div (d.bits_per_sample \div 8)
         /\ d.data_len = (d.block_size * d.fact.v) \div d.channels
    ELSE /\ d.format = 1
         /\ d.data_len % d.block_size = 0

ValidChunks(d) == ValidFmt(d) /\ ValidData(d) /\ ValidFact(d)

\* The files that arrive damaged: valid ones, of whole frames, with the extension
\* size exactly when the format is float, at sample rate 1 and with little data.
Plain(d) ==
    /\ ValidChunks(d)
    /\ d.block_size = d.channels * (d.bits_per_sample \div 8)
    /\ d.extension <=> (d.format = 3)
    /\ d.sample_rate = u32(1)
    /\ d.data_len <= MaxDamagedData

\* Damage to a file b: `cut` keeps its first `at` bytes; `shorten` does the same
\* and sets the RIFF size to what is left; `damage` replaces the byte at `at`;
\* `inside` appends `junk` and counts it in the RIFF size; `beyond` appends it
\* after the bytes the RIFF size counts.
Junk == {<<0>>, TAG_DATA \o u32(0), TAG_FACT \o u32(2) \o <<0, 0>>}

Damage(kind, at, junk) == [kind |-> kind, at |-> at, junk |-> junk]

Damages(b) ==
    {Damage("cut", k, <<>>) : k \in 0..(Len(b) - 1)}
    \cup {Damage("shorten", k, <<>>) : k \in 8..(Len(b) - 1)}
    \cup {Damage("damage", i, <<>>) : i \in (1..4) \cup (9..12)}
    \cup {Damage(kind, 0, junk) : kind \in {"inside", "beyond"}, junk \in Junk}

tamper(b, how) ==
    CASE how.kind = "cut" -> SubSeq(b, 1, how.at)
      [] how.kind = "shorten" -> TAG_RIFF \o u32(how.at - 8) \o SubSeq(b, 9, how.at)
      [] how.kind = "damage" -> [b EXCEPT ![how.at] = 0]
      [] how.kind = "inside" ->
           TAG_RIFF \o u32(Len(b) - 8 + Len(how.junk)) \o SubSeq(b, 9, Len(b)) \o how.junk
      [] how.kind = "beyond" -> b \o how.junk

(***************************************************************************)
(* The state machine: one call sequence per behaviour.                     *)
(***************************************************************************)
Init ==
    /\ pc = "start"
    /\ overflow_checks \in BOOLEAN
    /\ args = NoValue
    /\ encoded = NoValue
    /\ written = NoValue
    /\ raw = NoValue
    /\ chunks = NoValue
    /\ tampered = NoValue
    /\ bytes = <<>>
    /\ result = NoValue
    /\ reread = NoValue

\* WaveFile::from_samples::<T, _>(channels, sample_rate)
FromSamples ==
    /\ pc = "start"
    /\ \E T \in SampleTypes, channels \in ChannelInputs, sample_rate \in SampleRates :
          /\ args' = Some([T |-> T, channels |-> channels, sample_rate |-> sample_rate])
          /\ encoded' = from_samples(T, channels, sample_rate)
    /\ pc' = "encoded"
    /\ UNCHANGED <<overflow_checks, written, raw, chunks, tampered, bytes, result, reread>>

\* wave_file.write(&mut sink) on the WaveFile from_samples returned
Write ==
    /\ pc = "encoded"
    /\ encoded.t = "Ok"
    /\ written' = write(encoded.out)
    /\ pc' = "written"
    /\ UNCHANGED <<overflow_checks, args, encoded, raw, chunks, tampered, bytes, result, reread>>

\* WaveFile::read of the bytes write left in the sink
ReadBack ==
    /\ pc = "written"
    /\ written.t = "Ok"
    /\ bytes' = written.sink
    /\ result' = read(written.sink)
    /\ pc' = "read"
    /\ UNCHANGED <<overflow_checks, args, encoded, written, raw, chunks, tampered, reread>>

\* WaveFile::from_raw_data with a Vec whose bytes the model does not spell out
FromRawData ==
    /\ pc = "start"
    /\ \E format \in {PulseCodeModulation, FloatingPoint}, channels \in 1..MaxChannels,
          sample_rate \in SampleRates, bytes_per_sample \in {0, 1, 2, 4, 8192},
          len \in LongLengths :
          raw' = Some([self |-> from_raw_data(<<>>, format, channels, sample_rate,
                                              bytes_per_sample),
                       len |-> len])
    /\ pc' = "raw"
    /\ UNCHANGED <<overflow_checks, args, encoded, written, chunks, tampered, bytes, result, reread>>

\* wave_file.write(&mut sink) on that WaveFile
WriteSized ==
    /\ pc = "raw"
    /\ written' = write_sized(raw.v.self, raw.v.len)
    /\ pc' = "sized"
    /\ UNCHANGED <<overflow_checks, args, encoded, raw, chunks, tampered, bytes, result, reread>>

\* A file built by hand arrives.
Craft ==
    /\ pc = "start"
    /\ \E d \in Descriptors \cup FmtDescriptors :
          /\ d.order \in Orders(ChunkNames(d.fact))
          /\ chunks' = Some(d)
          /\ bytes' = assemble(d)
    /\ pc' = "crafted"
    /\ UNCHANGED <<overflow_checks, args, encoded, written, raw, tampered, result, reread>>

\* A well-formed file arrives damaged.
Tamper ==
    /\ pc = "start"
    /\ \E d \in Descriptors :
          /\ d.order \in Orders(ChunkNames(d.fact))
          /\ Plain(d)
          /\ \E how \in Damages(assemble(d)) :
                /\ tampered' = Some([file |-> d, how |-> how])
                /\ bytes' = tamper(assemble(d), how)
    /\ pc' = "crafted"
    /\ UNCHANGED <<overflow_checks, args, encoded, written, raw, chunks, result, reread>>

\* WaveFile::read of the hand-built file
Read ==
    /\ pc = "crafted"
    /\ result' = read(bytes)
    /\ pc' = "read"
    /\ UNCHANGED <<overflow_checks, args, encoded, written, raw, chunks, tampered, bytes, reread>>

\* wave_file.write(&mut sink) on the WaveFile read returned
Rewrite ==
    /\ pc = "read"
    /\ result.t = "Ok"
    /\ written' = write(result.out)
    /\ pc' = "rewritten"
    /\ UNCHANGED <<overflow_checks, args, encoded, raw, chunks, tampered, bytes, result, reread>>

\* WaveFile::read of the bytes that write left in the sink
ReadAgain ==
    /\ pc = "rewritten"
    /\ written.t = "Ok"
    /\ reread' = read(written.sink)
    /\ pc' = "reread"
    /\ UNCHANGED <<overflow_checks, args, encoded, written, raw, chunks, tampered, bytes,
                   result>>

Next == FromSamples \/ Write \/ ReadBack \/ FromRawData \/ WriteSized \/ Craft \/ Tamper \/ Read
        \/ Rewrite \/ ReadAgain

Spec == Init /\ [][Next]_vars

(***************************************************************************)
(* Vocabulary of the properties.                                           *)
(***************************************************************************)
\* The call sequence is from_samples, write, read; or read of a hand-built file.
Encoding == args.t = "Some"
Crafted == chunks.t = "Some"

Lengths(channels) == {Len(channels[c]) : c \in DOMAIN channels}

\* The channels are a legal count of channels, all of one length.
EqualLength(channels) == Cardinality(Lengths(channels)) <= 1

\* sample_rate * channels * bytes_per_sample as the code computes it, and whether
\* the multiplication leaves the u32 range.
byte_rate_product(w) == mul_u32(mul_u32(w.sample_rate, w.channels).value, w.bytes_per_sample)
byte_rate_overflows(w) ==
    mul_u32(w.sample_rate, w.channels).overflow \/ byte_rate_product(w).overflow

\* The WaveFile the chunks of d describe, whatever their order.
Described(d) ==
    WaveFile(IF d.format = 1 THEN PulseCodeModulation ELSE FloatingPoint,
             d.channels, d.sample_rate, d.bits_per_sample \div 8, data_of(d))

\* The offset of the byte-rate field of the fmt chunk in the hand-built file.
byte_rate_offset(d) == chunk_offset(d, "fmt", 1) + 16

\* The hand-built file from its data chunk on: what data_chunk is applied to.
data_span(d) ==
    Input(chunk_offset(d, "data", 1),
          SubSeq(assemble(d), chunk_offset(d, "data", 1) + 1, Len(assemble(d))))

\* The hand-built file from its fmt chunk on: what format_chunk is applied to.
fmt_span(d) ==
    Input(chunk_offset(d, "fmt", 1),
          SubSeq(assemble(d), chunk_offset(d, "fmt", 1) + 1, Len(assemble(d))))

\* sample_rate * block_align of the fmt chunk does not fit in 32 bits.
RateOverflows(d) == mul_u32(d.sample_rate, d.block_size).overflow

\* The data chunk is the last chunk of the file.
DataLast(d) == d.order[Len(d.order)] = "data"

\* len + k, for a usize len and a k below 256, is more than u32::MAX.
exceeds_u32(len, k) ==
    \/ SubSeq(len, 5, 8) # <<0, 0, 0, 0>>
    \/ SubSeq(len, 2, 4) = <<255, 255, 255>> /\ len[1] + k > 255

\* The file does not begin with RIFF, a size and WAVE.
BadContainer(b) ==
    \/ Len(b) < 12
    \/ SubSeq(b, 1, 4) # TAG_RIFF
    \/ SubSeq(b, 9, 12) # TAG_WAVE

(***************************************************************************)
(* The claims.                                                             *)
(***************************************************************************)

\* C1: round trip.  For every sample type, 1 to 8 channels, non-empty channels of
\* equal length: read of the bytes written by write(from_samples(channels, rate))
\* returns Ok with the channel count, sample rate, format, bytes_per_sample and
\* data bytes of the encoded WaveFile.
C1_RoundTrip ==
    (/\ pc = "read"
     /\ Encoding
     /\ Len(args.v.channels) \in 1..8
     /\ EqualLength(args.v.channels)
     /\ Lengths(args.v.channels) # {0})
    => (result.t = "Ok" /\ result.out = encoded.out)

\* C2: for every sample type and every single channel, of odd or even length (at a
\* sample rate whose byte rate fits in 32 bits), from_samples succeeds, write
\* succeeds and read accepts the written bytes with the format, one channel, the
\* sample rate and bytes_per_sample of the written WaveFile.
C2_SingleChannel ==
    (/\ Encoding
     /\ Len(args.v.channels) = 1
     /\ args.v.sample_rate = u32(8000))
    => /\ pc = "encoded" => encoded.t = "Ok"
       /\ pc = "written" => written.t = "Ok"
       /\ pc = "read" =>
            /\ result.t = "Ok"
            /\ result.out.format = encoded.out.format
            /\ result.out.channels = 1
            /\ result.out.sample_rate = encoded.out.sample_rate
            /\ result.out.bytes_per_sample = encoded.out.bytes_per_sample

\* C3: from_samples with zero channels, or with more than 65535 channels,
\* returns Err(TooManyChannels).
C3_TooManyChannels ==
    (/\ pc = "encoded"
     /\ (Len(args.v.channels) = 0 \/ Len(args.v.channels) > U16_MAX))
    => (encoded.t = "Err" /\ encoded.error = "TooManyChannels")

\* C4: with 1 to 65535 channels, from_samples returns Err(InequalChannelLength)
\* exactly when the channels are not all of one length, and Ok when they are (all
\* empty included); the error carries no WaveFile and no data.
C4_InequalChannelLength ==
    (/\ pc = "encoded"
     /\ Len(args.v.channels) \in 1..U16_MAX)
    => IF EqualLength(args.v.channels)
       THEN encoded.t = "Ok"
       ELSE encoded = [t |-> "Err", error |-> "InequalChannelLength"]

\* C4's case: two channels, one empty and one not, have been refused.
C4_Witness ==
    /\ pc = "encoded"
    /\ Len(args.v.channels) = 2
    /\ Lengths(args.v.channels) = {0, 1}
    /\ encoded.t = "Err"

\* C5: a file whose fmt chunk has a byte rate other than sample_rate * block_align
\* (here: otherwise well formed, byte rate one too large), in any order of its
\* chunks, is rejected with DataRateMismatch at the offset of the byte-rate field.
C5_DataRateMismatch ==
    (/\ pc = "read"
     /\ Crafted
     /\ chunks.v.rate_delta = 1
     /\ ValidChunks([chunks.v EXCEPT !.rate_delta = 0]))
    => result = ReadError("DataRateMismatch", byte_rate_offset(chunks.v))

\* C6: the error kind of a rejected file (here: one whose data chunk is padded as
\* RIFF asks) does not depend on the order of its chunks: the same chunks in any
\* other order are rejected with the same kind.
C6_OrderIndependentError ==
    (/\ pc = "read"
     /\ Crafted
     /\ ValidData(chunks.v)
     /\ result.t = "Error")
    => \A order \in Orders(ChunkNames(chunks.v.fact)) :
          LET other == read(assemble([chunks.v EXCEPT !.order = order]))
          IN other.t = "Error" /\ other.kind = result.kind

\* C7: chunk order independence.  A valid fmt chunk, a valid data chunk and an
\* optional valid fact chunk are accepted in every order, and decode to the
\* WaveFile they describe (the same in every order).
C7_ChunkOrderIndependence ==
    (/\ pc = "read"
     /\ Crafted
     /\ ValidChunks(chunks.v))
    => (result.t = "Ok" /\ result.out = Described(chunks.v))

\* C7's case: a valid file with the chunks in the order fact, data, fmt has been read.
C7_Witness ==
    /\ pc = "read"
    /\ Crafted
    /\ ValidChunks(chunks.v)
    /\ chunks.v.order = <<"fact", "data", "fmt">>
    /\ chunks.v.data_len > 0
    /\ result.t = "Ok"

\* C8: in every file write produces, the block-align field of the fmt chunk is
\* channels * bytes_per_sample, so that the byte-rate field is sample_rate *
\* block_align.
C8_BlockAlign ==
    (pc = "written" /\ written.t = "Ok")
    => LET block_align == u16_from_le(SubSeq(written.sink, 33, 34))
       IN /\ block_align = encoded.out.channels * encoded.out.bytes_per_sample
          /\ SubSeq(written.sink, 29, 32) = mul_u32(encoded.out.sample_rate, block_align).value

\* C9: every WaveFile read returns holds a whole number of frames: the length of
\* its data is a multiple of bytes_per_sample * channels, with or without a fact
\* chunk in the input.
C9_WholeFrames ==
    (pc = "read" /\ result.t = "Ok")
    => Len(result.out.data) % (result.out.bytes_per_sample * result.out.channels) = 0

\* C10: for every input read accepts, the byte-rate field of its fmt chunk is
\* sample_rate * channels * bytes_per_sample of the returned WaveFile.
C10_ByteRateConsistent ==
    (pc = "read" /\ Crafted /\ result.t = "Ok")
    => /\ ~byte_rate_overflows(result.out)
       /\ byte_rate_of(chunks.v) = byte_rate_product(result.out).value

\* C11: write lays the file out by the stored format.  PCM: a fmt chunk of declared
\* size 16 followed at once by the data chunk (no extension field, no fact chunk).
\* Float: a fmt chunk of declared size 18 whose extension size is 0, a fact chunk
\* of declared size 4, then the data chunk.  In both the RIFF size field is the
\* number of bytes written after it: 36 + data length for PCM, 50 + data length
\* for float.
C11_Layout ==
    (pc = "written" /\ written.t = "Ok")
    => LET b == written.sink
           n == Len(encoded.out.data)
       IN /\ SubSeq(b, 5, 8) = u32(Len(b) - 8)
          /\ IF encoded.out.format = PulseCodeModulation
             THEN /\ SubSeq(b, 13, 20) = TAG_FMT \o u32(16)
                  /\ SubSeq(b, 37, 44) = TAG_DATA \o u32(n)
                  /\ Len(b) = 8 + 36 + n
             ELSE /\ SubSeq(b, 13, 20) = TAG_FMT \o u32(18)
                  /\ SubSeq(b, 37, 38) = <<0, 0>>
                  /\ SubSeq(b, 39, 46) = TAG_FACT \o u32(4)
                  /\ SubSeq(b, 51, 58) = TAG_DATA \o u32(n)
                  /\ Len(b) = 8 + 50 + n

\* C11's case: a float WaveFile with data has been written.
C11_Witness ==
    /\ pc = "written"
    /\ written.t = "Ok"
    /\ encoded.out.format = FloatingPoint
    /\ encoded.out.data # <<>>

\* C12: for a float WaveFile the count write stores in the fact chunk is the
\* number of samples per channel, data.len() / (bytes_per_sample * channels), for
\* every channel count.
C12_FactPerChannel ==
    (pc = "written" /\ written.t = "Ok" /\ encoded.out.format = FloatingPoint)
    => SubSeq(written.sink, 47, 50)
         = u32(Len(encoded.out.data)
               \div (encoded.out.bytes_per_sample * encoded.out.channels))

\* C13: when a PCM WaveFile has an odd number of data bytes, write emits one pad
\* byte after the data, and read accepts the written file.
C13_PadByte ==
    (/\ Encoding
     /\ encoded.t = "Ok"
     /\ encoded.out.format = PulseCodeModulation
     /\ Len(encoded.out.data) % 2 = 1)
    => /\ (pc = "written" /\ written.t = "Ok")
            => Len(written.sink) = 8 + 36 + Len(encoded.out.data) + 1
       /\ pc = "read" => result.t = "Ok"

\* C14: the data-chunk rule.  A data chunk of even declared length is parsed with
\* no byte skipped; one of odd declared length followed by a pad byte is parsed
\* with that one byte skipped and left out of the data; one of odd declared length
\* with no byte after it is a parse failure of a Nom kind (of data_chunk, and of
\* read when the fmt chunk is valid).
C14_DataChunkRule ==
    (pc = "read" /\ Crafted)
    => LET d == chunks.v
           i == data_span(d)
           r == data_chunk(i)
           data == Input(i.off + 8, data_of(d))
       IN /\ d.data_len % 2 = 0
               => (r.t = "Ok" /\ r.out = data /\ r.rest.off = i.off + 8 + d.data_len)
          /\ (d.data_len % 2 = 1 /\ d.pad)
               => (r.t = "Ok" /\ r.out = data /\ r.rest.off = i.off + 8 + d.data_len + 1)
          /\ (d.data_len % 2 = 1 /\ ~d.pad /\ DataLast(d))
               => /\ r.t = "Error" /\ r.kind \in NomKinds
                  /\ ValidFmt(d) => (result.t = "Error" /\ result.kind \in NomKinds)

\* C14's case: a valid file with one data byte and its pad byte has been accepted.
C14_Witness ==
    /\ pc = "read"
    /\ Crafted
    /\ ValidChunks(chunks.v)
    /\ chunks.v.data_len = 1
    /\ chunks.v.pad
    /\ result.t = "Ok"
    /\ result.out.data = <<1>>

\* C15: a file with a valid float fmt chunk (tag 3, extension size present and
\* zero), a data chunk and no fact chunk is rejected with MissingFactChunk, in
\* either order of the two chunks.
C15_MissingFactChunk ==
    (/\ pc = "read"
     /\ Crafted
     /\ chunks.v.format = 3
     /\ ValidFmt(chunks.v)
     /\ ValidData(chunks.v)
     /\ chunks.v.fact.t = "None")
    => (result.t = "Error" /\ result.kind = "MissingFactChunk")

\* C15's case: such a file with the data chunk first has been rejected.
C15_Witness ==
    /\ pc = "read"
    /\ Crafted
    /\ chunks.v.format = 3
    /\ ValidFmt(chunks.v)
    /\ chunks.v.fact.t = "None"
    /\ chunks.v.order = <<"data", "fmt">>
    /\ chunks.v.data_len = 2
    /\ result.t = "Error"
    /\ result.kind = "MissingFactChunk"

\* C16: write returns DataTooLong exactly when a length field does not fit in 32
\* bits (the RIFF size 36 or 50 + data length, the data size, or the fact count),
\* and then the sink holds only the bytes of the fields that precede the first
\* such field, with no byte of it: here the RIFF tag, the RIFF size being the
\* first length written and the largest.  A WaveFile of a few bytes is never
\* refused.
C16_DataTooLong ==
    /\ pc = "written" => written.t # "DataTooLong"
    /\ pc = "sized" =>
         LET float == raw.v.self.format = FloatingPoint
             too_long ==
                \/ exceeds_u32(raw.v.len, IF float THEN RIFF_DATA_LEN_FLOAT
                                          ELSE RIFF_DATA_LEN_PCM)
                \/ exceeds_u32(raw.v.len, 0)
                \/ /\ float
                   /\ raw.v.self.bytes_per_sample # 0
                   /\ exceeds_u32(div_usize(raw.v.len, raw.v.self.bytes_per_sample), 0)
         IN /\ (written.t = "DataTooLong") <=> too_long
            /\ written.t = "DataTooLong" => written.sink = TAG_RIFF

\* C16's case: a float WaveFile of 2^32 - 50 data bytes, whose data size fits and
\* whose RIFF size does not, has been refused.
C16_Witness ==
    /\ pc = "sized"
    /\ raw.v.self.format = FloatingPoint
    /\ raw.v.len = below_2_32(50)
    /\ written = [t |-> "DataTooLong", sink |-> TAG_RIFF]

\* C17: the completeness gate.  A well-formed file with extra bytes appended
\* (one junk byte, a second data chunk, a malformed fact chunk), beyond the RIFF
\* size or inside it after the last chunk, is rejected by read.
C17_Completeness ==
    (/\ pc = "read"
     /\ tampered.t = "Some"
     /\ tampered.v.how.kind \in {"inside", "beyond"})
    => result.t = "Error"

\* C18: read never enters the branch marked unreachable (Err::Incomplete), for
\* any buffer: empty, cut short, or with a RIFF, fmt or data length that declares
\* more bytes than remain.
C18_NeverIncomplete == pc = "read" => result.t # "Unreachable"

\* C18's case: a file cut after its container header, so that the RIFF size
\* declares more than remains, has been rejected as Nom(Complete).
C18_Witness ==
    /\ pc = "read"
    /\ tampered.t = "Some"
    /\ tampered.v.how.kind = "cut"
    /\ tampered.v.how.at >= 12
    /\ result = ReadError("Nom(Complete)", 0)

\* C19: the container gate.  A buffer that does not begin with the tag RIFF, a
\* 32-bit size and the form type WAVE is rejected with a Nom kind, never with one
\* of the domain kinds.
C19_ContainerGate ==
    (pc = "read" /\ BadContainer(bytes))
    => (result.t = "Error" /\ result.kind \in NomKinds)

\* C19's case: a file whose form type is not WAVE has been rejected with Nom(Tag).
C19_Witness ==
    /\ pc = "read"
    /\ Len(bytes) > 12
    /\ SubSeq(bytes, 1, 4) = TAG_RIFF
    /\ SubSeq(bytes, 9, 12) # TAG_WAVE
    /\ result = ReadError("Nom(Tag)", 8)

\* C20: when a fact chunk is present (float or PCM) and the fmt chunk is valid (and
\* the data chunk well formed), read rejects the file with FactChunkLengthMismatch
\* at the offset of the fact chunk's sample count exactly when that count differs
\* from data_length / (bits_per_sample / 8).
C20_FactChunkLengthMismatch ==
    (/\ pc = "read"
     /\ Crafted
     /\ chunks.v.fact.t = "Some"
     /\ ValidFmt(chunks.v)
     /\ ValidData(chunks.v))
    => IF chunks.v.fact.v # chunks.v.data_len \div (chunks.v.bits_per_sample \div 8)
       THEN result = ReadError("FactChunkLengthMismatch",
                               chunk_offset(chunks.v, "fact", 1) + 8)
       ELSE ~(result.t = "Error" /\ result.kind = "FactChunkLengthMismatch")

\* C20's case: a PCM file whose fact chunk counts one sample too many has been
\* rejected.
C20_Witness ==
    /\ pc = "read"
    /\ Crafted
    /\ chunks.v.format = 1
    /\ ValidFmt(chunks.v)
    /\ ValidData(chunks.v)
    /\ chunks.v.fact = Some(chunks.v.data_len + 1)
    /\ chunks.v.bits_per_sample = 8
    /\ result.t = "Error"
    /\ result.kind = "FactChunkLengthMismatch"

\* C21: for a PCM file with a valid fmt chunk (and a well-formed data chunk) and
\* no fact chunk, read returns Ok when the data length is a multiple of the block
\* align (zero included), and otherwise DataSizeNotMultipleOfBlockSize at the
\* offset of the first byte of the data payload.
C21_MultipleOfBlockSize ==
    (/\ pc = "read"
     /\ Crafted
     /\ chunks.v.format = 1
     /\ ValidFmt(chunks.v)
     /\ ValidData(chunks.v)
     /\ chunks.v.fact.t = "None")
    => IF chunks.v.data_len % chunks.v.block_size = 0
       THEN result.t = "Ok"
       ELSE result = ReadError("DataSizeNotMultipleOfBlockSize",
                               chunk_offset(chunks.v, "data", 1) + 8)

\* C21's case: three data bytes (and their pad byte) with a block align of 2 have
\* been rejected.
C21_Witness ==
    /\ pc = "read"
    /\ Crafted
    /\ chunks.v.format = 1
    /\ ValidFmt(chunks.v)
    /\ chunks.v.fact.t = "None"
    /\ chunks.v.block_size = 2
    /\ chunks.v.data_len = 3
    /\ chunks.v.pad
    /\ result.t = "Error"
    /\ result.kind = "DataSizeNotMultipleOfBlockSize"

\* C22: applied to a fmt chunk whose channel count is 0 and whose byte rate is
\* sample_rate * block_align, the fmt-chunk rule fails with NoChannels at the
\* offset of the channel-count field, for every block align and bits per sample.
C22_NoChannels ==
    (/\ pc = "read"
     /\ Crafted
     /\ chunks.v.channels = 0
     /\ chunks.v.rate_delta = 0
     /\ ~RateOverflows(chunks.v))
    => format_chunk(fmt_span(chunks.v))
         = ReadError("NoChannels", chunk_offset(chunks.v, "fmt", 1) + 10)

\* C23: a fmt chunk that violates several cross-checks is reported with exactly
\* one error, that of the first violated check in the order DataRateMismatch (at
\* the byte rate, when it is not the product sample_rate * block_align),
\* ChannelCountMismatch (at the channel count), NoChannels (at the channel count),
\* FormatNotSupported (at the format tag), MissingFormatChunkExtensionSize (at the
\* format tag); a float fmt chunk of size 16 that passes the other checks yields
\* the last.  With fewer than 8 bits per sample no block align is a whole number
\* of samples, and the chunk is reported with some error.
C23_FirstViolatedCheck ==
    (pc = "read" /\ Crafted)
    => LET d == chunks.v
           at == chunk_offset(chunks.v, "fmt", 1)
           r == format_chunk(fmt_span(chunks.v))
       IN IF d.rate_delta # 0 \/ RateOverflows(d)
          THEN r = ReadError("DataRateMismatch", at + 16)
          ELSE IF d.bits_per_sample \div 8 = 0 THEN r.t = "Error"
          ELSE IF d.channels # d.block_size \div (d.bits_per_sample \div 8)
          THEN r = ReadError("ChannelCountMismatch", at + 10)
          ELSE IF d.channels = 0 THEN r = ReadError("NoChannels", at + 10)
          ELSE IF d.format \notin {1, 3} THEN r = ReadError("FormatNotSupported", at + 8)
          ELSE IF d.format = 3 /\ ~d.extension
          THEN r = ReadError("MissingFormatChunkExtensionSize", at + 8)
          ELSE r.t = "Ok"

\* C24: the InvalidDataSize check is not subsumed by the checks before it.  With a
\* valid fmt chunk, a well-formed data chunk and a fact chunk whose count passes
\* the sample-count check, read returns InvalidDataSize (at the data payload)
\* exactly when the data length differs from block_align * sample_count /
\* channel_count, and such files exist.
C24_InvalidDataSize ==
    (/\ pc = "read"
     /\ Crafted
     /\ ValidFmt(chunks.v)
     /\ ValidData(chunks.v)
     /\ chunks.v.fact.t = "Some"
     /\ chunks.v.fact.v = chunks.v.data_len \div (chunks.v.bits_per_sample \div 8))
    => IF chunks.v.data_len # (chunks.v.block_size * chunks.v.fact.v) \div chunks.v.channels
       THEN result = ReadError("InvalidDataSize", chunk_offset(chunks.v, "data", 1) + 8)
       ELSE result.t = "Ok"

\* C24's case: one 16-bit channel with block align 2, three data bytes and a fact
\* count of 1 (= 3 / 2) has been rejected with InvalidDataSize.
C24_Witness ==
    /\ pc = "read"
    /\ Crafted
    /\ ValidFmt(chunks.v)
    /\ chunks.v.channels = 1
    /\ chunks.v.bits_per_sample = 16
    /\ chunks.v.block_size = 2
    /\ chunks.v.data_len = 3
    /\ chunks.v.fact = Some(1)
    /\ result.t = "Error"
    /\ result.kind = "InvalidDataSize"

\* C25: for C channels of F samples each and a sample type of W bytes,
\* from_samples returns a WaveFile with channels = C, bytes_per_sample = W, the
\* format of the type, and F * C * W data bytes of which the W bytes from index
\* (f * C + c) * W are the little-endian bytes of the converted sample f of
\* channel c.
C25_Interleaved ==
    (/\ pc = "encoded"
     /\ Len(args.v.channels) \in 1..U16_MAX
     /\ EqualLength(args.v.channels))
    => LET T == args.v.T
           C == Len(args.v.channels)
           F == Len(args.v.channels[1])
           W == size_of(T)
       IN /\ encoded.t = "Ok"
          /\ encoded.out.channels = C
          /\ encoded.out.bytes_per_sample = W
          /\ encoded.out.sample_rate = args.v.sample_rate
          /\ encoded.out.format = (IF T \in {"f32", "f64"} THEN FloatingPoint
                                   ELSE PulseCodeModulation)
          /\ Len(encoded.out.data) = F * C * W
          /\ \A f \in 0..(F - 1), c \in 0..(C - 1) :
                SubSeq(encoded.out.data, (f * C + c) * W + 1, (f * C + c) * W + W)
                  = sample_le_bytes(T, args.v.channels[c + 1][f + 1])

\* C25's case: two channels of two i16 samples have been encoded.
C25_Witness ==
    /\ pc = "encoded"
    /\ args.v.T = "i16"
    /\ Len(args.v.channels) = 2
    /\ Lengths(args.v.channels) = {2}
    /\ args.v.channels[1] # args.v.channels[2]
    /\ encoded.t = "Ok"

\* C26: no division by zero is reachable in read: every divisor of the
\* validation is nonzero when its division is evaluated, so read returns Ok or a
\* ReadError for every buffer (here: every buffer whose byte-rate product fits in
\* 32 bits, which leaves the divisions as the only arithmetic that can fault).
C26_NoDivisionByZero ==
    (/\ pc = "read"
     /\ Crafted => ~RateOverflows(chunks.v))
    => result.t \in {"Ok", "Error"}

\* C27: re-encoding stability.  For every buffer read accepts with result w,
\* write(w) succeeds and read of the written bytes returns a WaveFile equal to w.
C27_ReencodingStable ==
    /\ pc = "rewritten" => written.t = "Ok"
    /\ pc = "reread" => reread = result

\* C28: for every buffer read accepts, the RIFF size field is the length of the
\* buffer minus 8.
C28_RiffSizeExact ==
    (pc = "read" /\ result.t = "Ok")
    => /\ Len(bytes) >= 8
       /\ SubSeq(bytes, 5, 8) = u32(Len(bytes) - 8)

\* C28's case: files with bytes beyond the RIFF size, and files cut short of it,
\* have been read; this one, with a byte beyond, has been rejected.
C28_Witness ==
    /\ pc = "read"
    /\ tampered.t = "Some"
    /\ tampered.v.how.kind = "beyond"
    /\ SubSeq(bytes, 5, 8) # u32(Len(bytes) - 8)
    /\ result.t = "Error"

\* C29: the byte-rate check is exact over the whole range of the fields: the
\* product sample_rate * block_align is never taken modulo 2^32, so a fmt chunk
\* whose true product does not fit in 32 bits (and so equals no byte rate) is
\* refused by that check with DataRateMismatch.
C29_ExactByteRate ==
    (/\ pc = "read"
     /\ Crafted
     /\ RateOverflows(chunks.v))
    => LET r == format_chunk(fmt_span(chunks.v))
       IN r.t = "Error" /\ r.kind = "DataRateMismatch"

\* C30: write has no arithmetic fault for a WaveFile made by from_samples or
\* from_raw_data: it returns Ok or DataTooLong (the sink never fails here).
C30_WriteNeverFaults ==
    pc \in {"written", "sized"} => written.t \in {"Ok", "DataTooLong"}

====
